---- MODULE Spec2Model ----
(***************************************************************************)
(* A state-machine model of rentry.py: the module import, main(), the two  *)
(* prompts of get_user_input(), the exploration loop of explore_content()  *)
(* with test_url_availability(), and the reporter at the end of            *)
(* explore_content().  Strings the program parses or builds are sequences  *)
(* of one-character strings.                                               *)
(*                                                                         *)
(* KeyboardInterrupt is modelled where the program handles it: as an       *)
(* answer to either prompt and at every position inside the try block of   *)
(* the exploration loop.                                                   *)
(***************************************************************************)
EXTENDS Integers, Sequences, FiniteSets, TLC

\* ------------------------------------------------------------- bounds
\* Largest finite count typed at the first prompt.
MaxCount == 3
\* Attempts explored in unlimited mode (the loop itself has no bound there).
MaxUnlimitedAttempts == 4
\* How many characters of the alphabet random.choice is drawn from when
\* generate_random is checked on its own.
NumPicks == 3

\* --------------------------------------------------- program constants
MinLen == 4
MaxLen == 8
AttemptFactor == 10
NotFound == 404
MethodNotAllowed == 405

\* ------------------------------------------------------------ strings
ascii_lowercase ==
  << "a","b","c","d","e","f","g","h","i","j","k","l","m",
     "n","o","p","q","r","s","t","u","v","w","x","y","z" >>

ascii_uppercase ==
  << "A","B","C","D","E","F","G","H","I","J","K","L","M",
     "N","O","P","Q","R","S","T","U","V","W","X","Y","Z" >>

digits == << "0","1","2","3","4","5","6","7","8","9" >>

Range(s) == { s[i] : i \in 1..Len(s) }

IndexOf(s, c) == CHOOSE i \in 1..Len(s) : s[i] = c

\* str.lower() on one character, then on a string.
LowerChar(c) ==
  IF c \in Range(ascii_uppercase) THEN ascii_lowercase[IndexOf(ascii_uppercase, c)] ELSE c

Lower(s) == [i \in 1..Len(s) |-> LowerChar(s[i])]

Whitespace == {" ", "\t"}

RECURSIVE LStrip(_)
LStrip(s) == IF s # <<>> /\ Head(s) \in Whitespace THEN LStrip(Tail(s)) ELSE s

RECURSIVE RStrip(_)
RStrip(s) ==
  IF s # <<>> /\ s[Len(s)] \in Whitespace THEN RStrip(SubSeq(s, 1, Len(s) - 1)) ELSE s

\* str.strip()
Strip(s) == RStrip(LStrip(s))

\* ------------------------------------------------ generate_random
\* chars = string.ascii_lowercase + string.digits
Chars == ascii_lowercase \o digits

\* ''.join(random.choice(chars) for _ in range(length)); picks[i] is the
\* index random.choice draws for the i-th character.
GenerateRandomOneMore(length, picks) ==
  [i \in 1..(length + 1) |-> Chars[picks[IF i <= length THEN i ELSE 1]]]

GenerateRandom(length, picks) == [i \in 1..length |-> Chars[picks[i]]]

\* random.randint(4, 8)
RandInt == MinLen..MaxLen

\* The k-th index of the alphabet random.choice is drawn from, taken from
\* both ends alternately: a, 9, b, 8, ...
PickIndex(k) == IF k % 2 = 1 THEN (k + 1) \div 2 ELSE Len(Chars) + 1 - (k \div 2)

PickSamples == { PickIndex(k) : k \in 1..NumPicks }

\* The draws of the exploration loop: the shortest token of the first
\* character and the longest token of the last one.
TokenDraws == { [length |-> MinLen, pick |-> 1], [length |-> MaxLen, pick |-> Len(Chars)] }

\* full_url = f"https://rentry.co/{url_id}"
FullUrl(url_id) == << "https://rentry.co/" >> \o url_id

\* ------------------------------------------------------ int(count_input)
IsDigit(c) == c \in Range(digits)

DigitVal(c) == IndexOf(digits, c) - 1

\* Digits with single underscores between them.
RECURSIVE DigitsOk(_)
DigitsOk(s) ==
  IF s = <<>> THEN FALSE
  ELSE IF ~IsDigit(Head(s)) THEN FALSE
  ELSE IF Len(s) = 1 THEN TRUE
  ELSE IF s[2] = "_" THEN DigitsOk(SubSeq(s, 3, Len(s)))
  ELSE DigitsOk(Tail(s))

RECURSIVE DigitsValue(_, _)
DigitsValue(s, acc) ==
  IF s = <<>> THEN acc
  ELSE IF Head(s) = "_" THEN DigitsValue(Tail(s), acc)
  ELSE DigitsValue(Tail(s), 10 * acc + DigitVal(Head(s)))

\* int(s): [ok |-> FALSE] stands for ValueError.
ParseInt(s) ==
  LET t == Strip(s)
      signed == t # <<>> /\ Head(t) \in {"+", "-"}
      body == IF signed THEN Tail(t) ELSE t
  IN  IF DigitsOk(body)
      THEN [ok |-> TRUE,
            val |-> IF signed /\ Head(t) = "-" THEN 0 - DigitsValue(body, 0)
                    ELSE DigitsValue(body, 0)]
      ELSE [ok |-> FALSE, val |-> 0]

\* str(n) for n >= 0
RECURSIVE ToDigits(_)
ToDigits(n) ==
  IF n < 10 THEN << digits[n + 1] >> ELSE Append(ToDigits(n \div 10), digits[(n % 10) + 1])

\* ------------------------------------------------------ counts
\* count and max_attempts: an integer or float('inf').
Finite(n) == [inf |-> FALSE, n |-> n]

Unbounded == [inf |-> TRUE, n |-> 0]

\* a < b for an integer a and an integer or infinite b
LessThan(a, b) == b.inf \/ a < b.n

\* if max_attempts is None: ...
DefaultMaxAttemptsPlusTen(count) ==
  IF count.inf THEN Unbounded ELSE Finite(count.n + AttemptFactor)

DefaultMaxAttempts(count) ==
  IF count.inf THEN Unbounded ELSE Finite(count.n * AttemptFactor)

\* while len(available_urls) < count and attempts < max_attempts
LoopCondInclusive(n_available, count, attempts, max_attempts) ==
  (count.inf \/ n_available <= count.n) /\ LessThan(attempts, max_attempts)

LoopCond(n_available, count, attempts, max_attempts) ==
  LessThan(n_available, count) /\ LessThan(attempts, max_attempts)

\* ------------------------------------------------------ responses
NoResponse == [kind |-> "none", status |-> 0]

Status(code) == [kind |-> "status", status |-> code]

\* requests.RequestException raised by the request
RequestError == [kind |-> "exception", status |-> 0]

StatusSamples == {200, 403, NotFound, MethodNotAllowed, 500}

Responses == { Status(c) : c \in StatusSamples } \cup {RequestError}

\* return response.status_code == 404
IsNotFoundOrRejected(response) ==
  response.kind = "status" /\ response.status \in {NotFound, MethodNotAllowed}

IsNotFound(response) == response.kind = "status" /\ response.status = NotFound

\* f"{len(available_urls)/attempts*100:.1f}", in tenths of a percent
\* (round-half-even on the exact quotient, as the float formatting gives for
\* the attempt counts explored here).
SuccessRateTenths(n_available, attempts) ==
  LET num == 1000 * n_available
      fl == num \div attempts
      twice == 2 * (num % attempts)
  IN  IF twice > attempts THEN fl + 1
      ELSE IF twice < attempts THEN fl
      ELSE IF fl % 2 = 0 THEN fl ELSE fl + 1

\* ------------------------------------------------------ the prompts
Str9 == << "u","n","l","i","m","i","t","e","d" >>

\* ['unlimited', 'infinite', 'inf', 'u']
UnlimitedWords ==
  { Str9, << "i","n","f","i","n","i","t","e" >>, << "i","n","f" >>, << "u" >> }

\* if count > 0
PositiveCountOrZero(n) == n >= 0

PositiveCount(n) == n > 0

\* ['y', 'yes', '1', 'true'] and ['n', 'no', '0', 'false']
YesWords == { << "y" >>, << "y","e","s" >>, << "1" >>, << "t","r","u","e" >> }

NoWords == { << "n" >>, << "n","o" >>, << "0" >>, << "f","a","l","s","e" >> }

\* Lines typed at the first prompt.
CountLines ==
  { ToDigits(n) : n \in 0..MaxCount }
  \cup { Str9, << " ","U"," " >>, << "I","n","f" >>,
         << >>, << "a","b","c" >>, << "1",".","5" >>, << "1","_" >>,
         << "-","1" >>, << " ","+","1","\t" >>, << "0","_","1" >> }

\* Lines typed at the second prompt.
BrowserLines ==
  { << "y" >>, << " ","Y","E","S"," " >>, << "1" >>, << "T","r","u","e" >>,
    << "n" >>, << "N","o" >>, << "0" >>, << "f","a","l","s","e" >>,
    << >>, << "m","a","y","b","e" >>, << "2" >> }

\* What input() gives: a line, EOFError or KeyboardInterrupt.
Line(s) == [kind |-> "line", line |-> s]

Aborts == { [kind |-> "eof", line |-> << >>], [kind |-> "interrupt", line |-> << >>] }

NoInput == [prompt |-> "none", kind |-> "none", line |-> << >>]

Asked(prompt, ev) == [prompt |-> prompt, kind |-> ev.kind, line |-> ev.line]

\* ------------------------------------------------------ state
VARIABLES
  requests_installed,  \* whether `import requests` can succeed
  pc,                  \* position of the program
  exit_code,           \* the process's exit status once pc = "exit"
  out,                 \* the kinds of message printed so far
  last_input,          \* what the last input() call gave, and at which prompt
  count,               \* get_user_input / explore_content: count
  open_browser,        \* get_user_input / explore_content: open_browser
  max_attempts,        \* explore_content: max_attempts
  available_urls,      \* explore_content: available_urls
  attempts,            \* explore_content: attempts
  url_id,              \* explore_content: url_id of the current attempt
  head_resp,           \* test_url_availability: the HEAD response
  get_resp,            \* test_url_availability: the follow-up GET response
  is_available,        \* explore_content: is_available
  viewer_calls,        \* number of webbrowser.open calls made
  last_opened,         \* the URL of the last webbrowser.open call
  cancelled,           \* the loop's except KeyboardInterrupt clause ran
  cancel_at,           \* attempts when the interrupt arrived
  heads,               \* HEAD requests completed
  probes_avail,        \* calls of test_url_availability that returned True
  probes_taken,        \* calls of test_url_availability that returned False
  summary,             \* the printed results line
  report,              \* the report file
  g_len,               \* generate_random: length
  g_picks              \* generate_random: the draws of random.choice

vars ==
  << requests_installed, pc, exit_code, out, last_input, count, open_browser,
     max_attempts, available_urls, attempts, url_id, head_resp, get_resp,
     is_available, viewer_calls, last_opened, cancelled, cancel_at, heads,
     probes_avail, probes_taken, summary, report, g_len, g_picks >>

inputVars == << last_input, count, open_browser >>

loopVars == << max_attempts, available_urls, attempts, url_id, is_available >>

probeVars == << head_resp, get_resp, heads, probes_avail, probes_taken >>

viewerVars == << viewer_calls, last_opened >>

cancelVars == << cancelled, cancel_at >>

reportVars == << summary, report >>

genVars == << g_len, g_picks >>

NoSummary == [printed |-> FALSE, available |-> 0, taken |-> 0, total |-> 0]

NoReport ==
  [exists |-> FALSE, complete |-> FALSE, attempts |-> 0, rate |-> 0, urls |-> << >>]

\* Everything before the first statement of the program runs.
Blank ==
  /\ exit_code = 0
  /\ out = {}
  /\ last_input = NoInput
  /\ count = Finite(0)
  /\ open_browser = FALSE
  /\ max_attempts = Finite(0)
  /\ available_urls = << >>
  /\ attempts = 0
  /\ url_id = << >>
  /\ head_resp = NoResponse
  /\ get_resp = NoResponse
  /\ is_available = FALSE
  /\ viewer_calls = 0
  /\ last_opened = << >>
  /\ cancelled = FALSE
  /\ cancel_at = 0
  /\ heads = 0
  /\ probes_avail = 0
  /\ probes_taken = 0
  /\ summary = NoSummary
  /\ report = NoReport

Init ==
  /\ requests_installed \in BOOLEAN
  /\ pc = "import"
  /\ Blank
  /\ g_len = MinLen
  /\ g_picks = [i \in 1..MinLen |-> 1]

\* ------------------------------------------------------ start-up
\* `import requests` at the top of the module: without the library the
\* interpreter ends with a traceback and status 1.
ImportModules ==
  /\ pc = "import"
  /\ IF requests_installed
     THEN /\ pc' = "main"
          /\ UNCHANGED << exit_code, out >>
     ELSE /\ pc' = "exit"
          /\ exit_code' = 1
          /\ out' = out \cup {"traceback"}
  /\ UNCHANGED << requests_installed, inputVars, loopVars, probeVars, viewerVars,
                  cancelVars, reportVars, genVars >>

\* main(): if not check_dependencies(): sys.exit(1)
CheckDependencies ==
  /\ pc = "main"
  /\ IF requests_installed
     THEN /\ pc' = "prompt_count"
          /\ UNCHANGED << exit_code, out >>
     ELSE /\ pc' = "exit"
          /\ exit_code' = 1
          /\ out' = out \cup {"install_guidance"}
  /\ UNCHANGED << requests_installed, inputVars, loopVars, probeVars, viewerVars,
                  cancelVars, reportVars, genVars >>

\* get_user_input(): one pass of the first `while True`.
PromptCount ==
  /\ pc = "prompt_count"
  /\ \E ev \in { Line(s) : s \in CountLines } \cup Aborts :
       /\ last_input' = Asked("count", ev)
       /\ IF ev.kind # "line"
          THEN /\ out' = out \cup {"cancelled"}
               /\ pc' = "exit"
               /\ exit_code' = 0
               /\ count' = count
          ELSE LET count_input == Strip(ev.line)
                   parsed == ParseInt(count_input)
               IN  /\ UNCHANGED << out, exit_code >>
                   /\ IF Lower(count_input) \in UnlimitedWords
                      THEN /\ count' = Unbounded
                           /\ pc' = "prompt_browser"
                      ELSE IF ~parsed.ok
                      THEN /\ count' = count
                           /\ pc' = "prompt_count"
                      ELSE /\ count' = Finite(parsed.val)
                           /\ pc' = IF PositiveCount(parsed.val)
                                    THEN "prompt_browser" ELSE "prompt_count"
  /\ UNCHANGED << requests_installed, open_browser, loopVars, probeVars, viewerVars,
                  cancelVars, reportVars, genVars >>

\* get_user_input(): one pass of the second `while True`.
PromptBrowser ==
  /\ pc = "prompt_browser"
  /\ \E ev \in { Line(s) : s \in BrowserLines } \cup Aborts :
       /\ last_input' = Asked("browser", ev)
       /\ IF ev.kind # "line"
          THEN /\ out' = out \cup {"cancelled"}
               /\ pc' = "exit"
               /\ exit_code' = 0
               /\ open_browser' = open_browser
          ELSE LET open_choice == Lower(Strip(ev.line))
               IN  /\ UNCHANGED << out, exit_code >>
                   /\ IF open_choice \in YesWords
                      THEN open_browser' = TRUE /\ pc' = "explore"
                      ELSE IF open_choice \in NoWords
                      THEN open_browser' = FALSE /\ pc' = "explore"
                      ELSE open_browser' = open_browser /\ pc' = "prompt_browser"
  /\ UNCHANGED << requests_installed, count, loopVars, probeVars, viewerVars,
                  cancelVars, reportVars, genVars >>

\* main() calls explore_content(count, open_browser): the statements before
\* the loop.
ExploreStart ==
  /\ pc = "explore"
  /\ max_attempts' = DefaultMaxAttempts(count)
  /\ available_urls' = << >>
  /\ attempts' = 0
  /\ last_input' = NoInput
  /\ pc' = "while"
  /\ UNCHANGED << requests_installed, exit_code, out, count, open_browser, url_id,
                  is_available, probeVars, viewerVars, cancelVars, reportVars, genVars >>

\* ------------------------------------------------------ the loop
\* attempts += 1
SameAttempt(n) == n

NextAttempt(n) == n + 1

\* The loop's test and, when it passes, the statements up to the call of
\* test_url_availability.  The loop of unlimited mode is followed for
\* MaxUnlimitedAttempts attempts.
LoopTest ==
  /\ pc = "while"
  /\ count.inf => attempts < MaxUnlimitedAttempts
  /\ IF LoopCond(Len(available_urls), count, attempts, max_attempts)
     THEN /\ attempts' = NextAttempt(attempts)
          /\ \E d \in TokenDraws :
               url_id' = GenerateRandom(d.length, [i \in 1..d.length |-> d.pick])
          /\ pc' = "head"
     ELSE /\ UNCHANGED << attempts, url_id >>
          /\ pc' = "report"
  /\ UNCHANGED << requests_installed, exit_code, out, inputVars, max_attempts,
                  available_urls, is_available, probeVars, viewerVars, cancelVars,
                  reportVars, genVars >>

\* test_url_availability: session.head(full_url, timeout=5, allow_redirects=True)
\* and, unless the status is 405, the function's return.
HeadRequest ==
  /\ pc = "head"
  /\ \E r \in Responses :
       /\ head_resp' = r
       /\ get_resp' = NoResponse
       /\ heads' = heads + 1
       /\ IF r.kind = "exception"
          THEN /\ is_available' = FALSE
               /\ probes_taken' = probes_taken + 1
               /\ probes_avail' = probes_avail
               /\ pc' = "branch"
          ELSE IF r.status = MethodNotAllowed
          THEN /\ UNCHANGED << is_available, probes_avail, probes_taken >>
               /\ pc' = "get"
          ELSE /\ is_available' = IsNotFound(r)
               /\ probes_avail' = probes_avail + (IF IsNotFound(r) THEN 1 ELSE 0)
               /\ probes_taken' = probes_taken + (IF IsNotFound(r) THEN 0 ELSE 1)
               /\ pc' = "branch"
  /\ UNCHANGED << requests_installed, exit_code, out, inputVars, max_attempts,
                  available_urls, attempts, url_id, viewerVars, cancelVars,
                  reportVars, genVars >>

\* test_url_availability: session.get(full_url, timeout=5) after a 405, and
\* the function's return.
GetRequest ==
  /\ pc = "get"
  /\ \E r \in Responses :
       LET result == IF r.kind = "exception" THEN FALSE ELSE IsNotFound(r)
       IN  /\ get_resp' = r
           /\ is_available' = result
           /\ probes_avail' = probes_avail + (IF result THEN 1 ELSE 0)
           /\ probes_taken' = probes_taken + (IF result THEN 0 ELSE 1)
           /\ pc' = "branch"
  /\ UNCHANGED << requests_installed, exit_code, out, inputVars, max_attempts,
                  available_urls, attempts, url_id, head_resp, heads, viewerVars,
                  cancelVars, reportVars, genVars >>

\* The else branch of `if is_available:` with `if open_browser:` inside it.
ShouldOpenAlways(available, browser) == browser

ShouldOpen(available, browser) == ~available /\ browser

\* if is_available: ... else: ...  up to, not including, the sleeps.
\* webbrowser.open either returns or raises (caught, and the 1.5 s sleep is
\* skipped).
Branch ==
  /\ pc = "branch"
  /\ available_urls' = IF is_available
                       THEN Append(available_urls, FullUrl(url_id))
                       ELSE available_urls
  /\ IF ShouldOpen(is_available, open_browser)
     THEN /\ viewer_calls' = viewer_calls + 1
          /\ last_opened' = FullUrl(url_id)
          /\ \E raised \in BOOLEAN :
               /\ out' = IF raised THEN out \cup {"browser_error"} ELSE out
               /\ pc' = IF raised THEN "sleep" ELSE "sleep_open"
     ELSE /\ UNCHANGED << viewerVars, out >>
          /\ pc' = "sleep"
  /\ head_resp' = NoResponse
  /\ get_resp' = NoResponse
  /\ UNCHANGED << requests_installed, exit_code, inputVars, max_attempts, attempts,
                  url_id, is_available, heads, probes_avail, probes_taken,
                  cancelVars, reportVars, genVars >>

\* time.sleep(1.5) after webbrowser.open
SleepAfterOpen ==
  /\ pc = "sleep_open"
  /\ pc' = "sleep"
  /\ UNCHANGED << requests_installed, exit_code, out, inputVars, loopVars, probeVars,
                  viewerVars, cancelVars, reportVars, genVars >>

\* time.sleep(0.3) at the end of the loop's body
Sleep ==
  /\ pc = "sleep"
  /\ pc' = "while"
  /\ UNCHANGED << requests_installed, exit_code, out, inputVars, loopVars, probeVars,
                  viewerVars, cancelVars, reportVars, genVars >>

LoopPcs == {"while", "head", "get", "branch", "sleep_open", "sleep"}

\* A handler that swallows the interrupt inside the loop's body.
InterruptResumes ==
  /\ pc \in LoopPcs
  /\ cancelled' = TRUE
  /\ cancel_at' = attempts
  /\ out' = out \cup {"stopped"}
  /\ pc' = "while"
  /\ UNCHANGED << requests_installed, exit_code, inputVars, loopVars, probeVars,
                  viewerVars, reportVars, genVars >>

\* KeyboardInterrupt inside the try block: the except clause, which prints
\* the attempts made and falls through to the statements after the loop.
Interrupt ==
  /\ pc \in LoopPcs
  /\ cancelled' = TRUE
  /\ cancel_at' = attempts
  /\ out' = out \cup {"stopped"}
  /\ pc' = "report"
  /\ UNCHANGED << requests_installed, exit_code, inputVars, loopVars, probeVars,
                  viewerVars, reportVars, genVars >>

\* ------------------------------------------------------ the reporter
\* if available_urls:
ShouldWriteSeveral(urls) == Len(urls) > 1

ShouldWrite(urls) == urls # << >>

\* A file that open() created and into which nothing was written.
EmptyReport ==
  [exists |-> TRUE, complete |-> FALSE, attempts |-> 0, rate |-> 0, urls |-> << >>]

\* The statements of explore_content after the loop.  Writing the file
\* either succeeds or raises (caught): then there is no file, an empty
\* file, or a file that holds the header and only some of the URLs.
Report ==
  /\ pc = "report"
  /\ summary' = [printed |-> TRUE,
                 available |-> Len(available_urls),
                 taken |-> attempts - Len(available_urls),
                 total |-> attempts]
  /\ IF ShouldWrite(available_urls)
     THEN LET rate == SuccessRateTenths(Len(available_urls), attempts)
          IN  \/ /\ report' = [exists |-> TRUE, complete |-> TRUE,
                               attempts |-> attempts, rate |-> rate,
                               urls |-> available_urls]
                 /\ out' = out \cup {"listed", "saved"}
              \/ /\ \E k \in 0..(Len(available_urls) - 1), made, header \in BOOLEAN :
                      report' = IF ~made THEN NoReport
                                ELSE IF ~header THEN EmptyReport
                                ELSE [exists |-> TRUE, complete |-> FALSE,
                                      attempts |-> attempts, rate |-> rate,
                                      urls |-> SubSeq(available_urls, 1, k)]
                 /\ out' = out \cup {"listed", "save_error"}
     ELSE /\ report' = NoReport
          /\ out' = out \cup {"none_found"}
  /\ pc' = "finish"
  /\ UNCHANGED << requests_installed, exit_code, inputVars, loopVars, probeVars,
                  viewerVars, cancelVars, genVars >>

\* main() after explore_content returns, and the end of the process.
Finish ==
  /\ pc = "finish"
  /\ out' = out \cup (IF available_urls # << >> THEN {"complete"} ELSE {})
                \cup (IF available_urls # << >> /\ open_browser THEN {"check_tabs"} ELSE {})
  /\ pc' = "exit"
  /\ exit_code' = 0
  /\ UNCHANGED << requests_installed, inputVars, loopVars, probeVars, viewerVars,
                  cancelVars, reportVars, genVars >>

Next ==
  \/ ImportModules
  \/ CheckDependencies
  \/ PromptCount
  \/ PromptBrowser
  \/ ExploreStart
  \/ LoopTest
  \/ HeadRequest
  \/ GetRequest
  \/ Branch
  \/ SleepAfterOpen
  \/ Sleep
  \/ Interrupt
  \/ Report
  \/ Finish

Spec == Init /\ [][Next]_vars

\* ------------------------------------------------------ the generator alone
\* generate_random(random.randint(4, 8)) with the draws of random.choice
\* taken from PickSamples.
InitGen ==
  /\ requests_installed = TRUE
  /\ pc = "generate"
  /\ Blank
  /\ g_len \in RandInt
  /\ g_picks \in [1..g_len -> PickSamples]

Generate ==
  /\ pc = "generate"
  /\ url_id' = GenerateRandom(g_len, g_picks)
  /\ pc' = "generated"
  /\ UNCHANGED << requests_installed, exit_code, out, inputVars, max_attempts,
                  available_urls, attempts, is_available, probeVars, viewerVars,
                  cancelVars, reportVars, genVars >>

NextGen == Generate

SpecGen == InitGen /\ [][NextGen]_vars

\* ------------------------------------------------------ properties
\* explore_content has left its loop (or the process has ended after it).
Explored == pc \in {"report", "finish"} \/ (pc = "exit" /\ summary.printed)

\* explore_content has been entered.
Exploring == pc \in LoopPcs \/ Explored

Url(token) == << "https://rentry.co/" >> \o token

\* C1: for a finite target n >= 1, a run of explore_content that was not
\* interrupted and in which every probe returned AVAILABLE has made exactly
\* n probes (n HEAD requests, n calls of test_url_availability, attempts = n)
\* and has collected exactly n URLs when the loop has ended.
C1_AllAvailableStopsAtTarget ==
  (Explored /\ ~cancelled /\ ~count.inf /\ probes_taken = 0) =>
     /\ count.n >= 1
     /\ attempts = count.n
     /\ heads = count.n
     /\ probes_avail = count.n
     /\ Len(available_urls) = count.n

C1_Witness ==
  /\ pc = "exit" /\ summary.printed /\ ~cancelled
  /\ count = Finite(3) /\ probes_taken = 0 /\ attempts = 3 /\ Len(available_urls) = 3

\* C2: for a finite target n >= 1 with the default max_attempts, a run that
\* was not interrupted and in which no probe returned AVAILABLE ends after
\* exactly 10 * n probes with nothing collected.
C2_NeverAvailableStopsAtBudget ==
  (Explored /\ ~cancelled /\ ~count.inf /\ probes_avail = 0) =>
     /\ max_attempts = Finite(10 * count.n)
     /\ attempts = 10 * count.n
     /\ heads = 10 * count.n
     /\ probes_taken = 10 * count.n
     /\ available_urls = << >>

C2_Witness ==
  /\ pc = "exit" /\ summary.printed /\ ~cancelled
  /\ count = Finite(3) /\ probes_avail = 0 /\ attempts = 30 /\ summary.taken = 30

\* The response that decides test_url_availability: the HEAD response, or
\* the response of the follow-up GET when HEAD gave 405.
C3_Deciding == IF head_resp = Status(405) THEN get_resp ELSE head_resp

\* C3: when test_url_availability has returned, its result is True exactly
\* when the deciding response has status 404; a GET was made exactly when
\* HEAD gave 405; a failed request of either kind gives False and the call
\* returns normally.
C3_AvailableIffNotFound ==
  pc = "branch" =>
     /\ head_resp # NoResponse
     /\ (get_resp # NoResponse) <=> (head_resp = Status(405))
     /\ is_available <=> (C3_Deciding = Status(404))
     /\ C3_Deciding.kind = "exception" => ~is_available

C3_Witness ==
  /\ pc = "branch" /\ head_resp = Status(405) /\ get_resp = Status(404) /\ is_available

\* C4: once the loop has been interrupted after N attempts (cancel_at), the
\* program is no longer inside the loop, attempts stays N, at most N probes
\* were made and at most N URLs collected, and the summary and the report
\* file state N attempts; the summary is printed before the program ends.
C4_CancelStopsAndReports ==
  cancelled =>
     /\ pc \notin LoopPcs
     /\ "stopped" \in out
     /\ attempts = cancel_at
     /\ heads <= cancel_at
     /\ probes_avail + probes_taken <= cancel_at
     /\ Len(available_urls) <= cancel_at
     /\ pc \in {"finish", "exit"} =>
          /\ summary.printed
          /\ summary.total = cancel_at
          /\ summary.available = Len(available_urls)
     /\ report.complete => report.attempts = cancel_at

C4_Witness ==
  /\ cancelled /\ pc = "exit" /\ cancel_at = 2 /\ heads = 1
  /\ Len(available_urls) = 1 /\ report.complete /\ report.attempts = 2

C5_Alphabet ==
  { "a","b","c","d","e","f","g","h","i","j","k","l","m","n","o","p","q","r",
    "s","t","u","v","w","x","y","z","0","1","2","3","4","5","6","7","8","9" }

\* C5: every token generate_random returns for a length drawn by
\* random.randint(4, 8) has between 4 and 8 characters, each of a-z or 0-9.
C5_TokenShape ==
  pc = "generated" =>
     /\ Len(url_id) >= 4
     /\ Len(url_id) <= 8
     /\ \A i \in 1..Len(url_id) : url_id[i] \in C5_Alphabet

C5_Witness ==
  /\ pc = "generated" /\ Len(url_id) = 8 /\ url_id[1] = "a" /\ url_id[8] = "9"

\* C6 as stated: after the loop the summary is printed, the report file
\* exists if and only if at least one URL was collected and lists exactly
\* the collected URLs in order; with none the notice is printed.
C6_FileIffAvailable ==
  pc \in {"finish", "exit"} /\ Exploring =>
     /\ summary.printed
     /\ report.exists <=> (available_urls # << >>)
     /\ report.exists => report.urls = available_urls
     /\ (available_urls = << >>) => "none_found" \in out

\* C6 amended: after the loop the summary is printed; the file is written
\* (with success or with a caught failure) if and only if at least one URL
\* was collected; a write that succeeds leaves a file listing exactly the
\* collected URLs in order, a write that fails leaves no file or one listing
\* only a proper prefix of them; with none collected the notice is printed
\* and there is no file.
C6_WriteAttemptedIffAvailable ==
  pc \in {"finish", "exit"} /\ Exploring =>
     /\ summary.printed
     /\ summary.available = Len(available_urls)
     /\ summary.total = attempts
     /\ ("saved" \in out \/ "save_error" \in out) <=> (available_urls # << >>)
     /\ ~("saved" \in out /\ "save_error" \in out)
     /\ "saved" \in out => report.complete /\ report.urls = available_urls
     /\ "save_error" \in out =>
          \E k \in 0..(Len(available_urls) - 1) : report.urls = SubSeq(available_urls, 1, k)
     /\ "none_found" \in out <=> (available_urls = << >>)
     /\ (available_urls = << >>) => ~report.exists

C6_Witness ==
  /\ pc = "exit" /\ "saved" \in out /\ report.exists /\ ~cancelled
  /\ Len(report.urls) = 2 /\ report.urls[1] # report.urls[2] /\ report.urls = available_urls

\* C7: webbrowser.open is called only by the branch of a TAKEN result with
\* open_browser set, once and on that attempt's URL, and the result list
\* then stays as it is; the branch of an AVAILABLE result appends that
\* attempt's URL once and calls no viewer; without open_browser a TAKEN
\* result changes neither.
C7_BranchEffects ==
  [][ /\ (viewer_calls' # viewer_calls \/ last_opened' # last_opened) =>
            /\ pc = "branch" /\ ~is_available /\ open_browser
            /\ viewer_calls' = viewer_calls + 1
            /\ last_opened' = Url(url_id)
      /\ (available_urls' # available_urls /\ pc # "explore") =>
            /\ pc = "branch" /\ is_available
      /\ (pc = "branch" /\ pc' \in {"sleep", "sleep_open"}) =>
            /\ is_available =>
                 /\ available_urls' = Append(available_urls, Url(url_id))
                 /\ viewer_calls' = viewer_calls
            /\ ~is_available =>
                 /\ available_urls' = available_urls
                 /\ viewer_calls' = viewer_calls + (IF open_browser THEN 1 ELSE 0)
                 /\ open_browser => last_opened' = Url(url_id)
    ]_vars

C7_Witness ==
  /\ pc = "sleep_open" /\ viewer_calls = 2 /\ Len(available_urls) = 1
  /\ last_opened = Url(url_id) /\ last_opened # available_urls[1]

\* C8: when the requests library is missing the program ends with status 1
\* having printed the installation guidance, before any prompt or probe.
C8_MissingLibraryGuidance ==
  (~requests_installed /\ pc = "exit") =>
     /\ exit_code = 1
     /\ "install_guidance" \in out
     /\ last_input = NoInput
     /\ heads = 0

\* The answers to the first prompt that are accepted, with the count each
\* gives; every other line is invalid.
C9_Unlimited == { Str9, << " ","U"," " >>, << "I","n","f" >> }

C9_One == { << "1" >>, << " ","+","1","\t" >>, << "0","_","1" >> }

C9_CountOf(line) ==
  IF line \in C9_Unlimited THEN Unbounded
  ELSE IF line \in C9_One THEN Finite(1)
  ELSE Finite(CHOOSE n \in 2..MaxCount : line = ToDigits(n))

C9_ValidCount(line) ==
  line \in C9_Unlimited \cup C9_One \cup { ToDigits(n) : n \in 2..MaxCount }

C9_Yes == { << "y" >>, << " ","Y","E","S"," " >>, << "1" >>, << "T","r","u","e" >> }

C9_No == { << "n" >>, << "N","o" >>, << "0" >>, << "f","a","l","s","e" >> }

\* C9: at either prompt an invalid line leads back to the same prompt and
\* leaves the values accepted so far (at the second prompt: count) as they
\* are; a valid line is accepted with its meaning; end of input or an
\* interrupt ends the process with status 0 and the cancellation message,
\* and nothing runs after the process has ended; exploration starts only
\* with a positive or unlimited count.
C9_Prompts ==
  [][ /\ pc # "exit"
      /\ pc = "prompt_count" =>
            /\ last_input'.prompt = "count"
            /\ last_input'.kind # "line" =>
                 /\ pc' = "exit" /\ exit_code' = 0 /\ "cancelled" \in out'
                 /\ ~summary'.printed /\ heads' = 0
            /\ (last_input'.kind = "line" /\ C9_ValidCount(last_input'.line)) =>
                 /\ pc' = "prompt_browser"
                 /\ count' = C9_CountOf(last_input'.line)
            /\ (last_input'.kind = "line" /\ ~C9_ValidCount(last_input'.line)) =>
                 /\ pc' = "prompt_count"
                 /\ open_browser' = open_browser /\ out' = out
      /\ pc = "prompt_browser" =>
            /\ last_input'.prompt = "browser"
            /\ count' = count
            /\ count.inf \/ count.n >= 1
            /\ last_input'.kind # "line" =>
                 /\ pc' = "exit" /\ exit_code' = 0 /\ "cancelled" \in out'
                 /\ ~summary'.printed /\ heads' = 0
            /\ (last_input'.kind = "line" /\ last_input'.line \in C9_Yes) =>
                 /\ pc' = "explore" /\ open_browser'
            /\ (last_input'.kind = "line" /\ last_input'.line \in C9_No) =>
                 /\ pc' = "explore" /\ ~open_browser'
            /\ (last_input'.kind = "line" /\ last_input'.line \notin C9_Yes \cup C9_No) =>
                 /\ pc' = "prompt_browser"
                 /\ open_browser' = open_browser /\ out' = out
      /\ pc' = "explore" => (count'.inf \/ count'.n >= 1)
    ]_vars

C9_Witness ==
  /\ pc = "prompt_browser" /\ count = Finite(2)
  /\ last_input = [prompt |-> "browser", kind |-> "line", line |-> << "m","a","y","b","e" >>]

\* C10: in explore_content with a finite target,
\* 0 <= len(available_urls) <= attempts <= max_attempts and
\* len(available_urls) <= target; the taken count printed is not negative;
\* attempts >= 1 whenever the success rate is computed.
C10_Counters ==
  (Exploring /\ ~count.inf) =>
     /\ count.n >= 1
     /\ Len(available_urls) <= attempts
     /\ ~max_attempts.inf
     /\ attempts <= max_attempts.n
     /\ Len(available_urls) <= count.n
     /\ summary.printed => summary.taken >= 0
     /\ (pc = "report" /\ available_urls # << >>) => attempts >= 1
     /\ report.complete => report.attempts >= 1

C10_Witness ==
  /\ pc = "exit" /\ cancelled /\ ~count.inf /\ report.complete
  /\ report.attempts = 1 /\ report.rate = 1000 /\ summary.taken = 0

====
